---- MODULE Spec2Model ----
(***************************************************************************)
(* A model of sm_core/data_serialization.py: the class SM_serial, a thin   *)
(* frame-indexed store on top of one h5py container file.                  *)
(*                                                                         *)
(* The container is a flat map from paths (sequences of name segments,     *)
(* the first one the formatted frame name) to nodes.  A node is a group    *)
(* or a dataset and carries an attribute map.  Store instances are         *)
(* created by SM_serial.open, one after the other, on the same file.       *)
(***************************************************************************)
EXTENDS Integers, Sequences, FiniteSets, TLC

VARIABLES
    fexists,   \* the backing file exists on disk
    file,      \* the container: path -> node, for the paths that exist
    store,     \* the SM_serial instance the program holds
    last,      \* the last call made: its arguments, exception and return value
    written    \* history: (frame, name) -> the data handed to the dumps that
               \* created or replaced the dataset there

vars == <<fexists, file, store, last, written>>

(***************************************************************************)
(* Bounds of the model.                                                    *)
(***************************************************************************)
MaxFrame == 1

(***************************************************************************)
(* Inputs.                                                                 *)
(***************************************************************************)
Frames == 0..MaxFrame

\* the frame numbers 0..MaxSmallFrame are formatted one by one
MaxSmallFrame == 110

\* data_set arguments 'a', 'b' and 'b/c', as their path segments
NameA == <<"a">>
NameB == <<"b">>
NameBC == <<"b", "c">>

\* the order in which h5py enumerates the keys of a group
KeyOrder == <<"a", "b", "c">>

\* a python list of ints, a float64 array with the same elements, and an
\* array of a dtype the hdf stack does not store (test_basic.py:73)
DataList == [dtype |-> "list", elems |-> <<1, 2>>]
DataF64 == [dtype |-> "float64", elems |-> <<1, 2>>]
DataF16 == [dtype |-> "float16", elems |-> <<1>>]
DataValues == {DataList, DataF64, DataF16}

NoData == [dtype |-> "none", elems |-> <<>>]

EmptyMap == [k \in {} |-> 0]

\* meta_data arguments; the empty map also stands for None
MdA == [k \in {"k1"} |-> 1]
MdB == [k \in {"k2"} |-> 1]
MdC == [k \in {"k1", "k2"} |-> 2]
MdMaps == {EmptyMap, MdA, MdB, MdC}

FileModes == {"r", "r+", "w", "w-", "a", "None", "x"}

None == "None"

(***************************************************************************)
(* _format_frame_name: 'time_{0:07d}'.format(N)                            *)
(***************************************************************************)
FrameWidth == 7

Digit(d) ==
    CASE d = 0 -> "0" [] d = 1 -> "1" [] d = 2 -> "2" [] d = 3 -> "3"
      [] d = 4 -> "4" [] d = 5 -> "5" [] d = 6 -> "6" [] d = 7 -> "7"
      [] d = 8 -> "8" [] d = 9 -> "9"

RECURSIVE DecStr(_)
DecStr(n) == IF n < 10 THEN Digit(n) ELSE DecStr(n \div 10) \o Digit(n % 10)

RECURSIVE NumDigits(_)
NumDigits(n) == IF n < 10 THEN 1 ELSE 1 + NumDigits(n \div 10)

RECURSIVE ZeroPad(_, _, _)
ZeroPad(s, len, width) ==
    IF len >= width THEN s ELSE ZeroPad("0" \o s, len + 1, width)

\* '{0:07d}': the sign counts towards the width
format_07d(N) ==
    IF N < 0
    THEN "-" \o ZeroPad(DecStr(-N), NumDigits(-N), FrameWidth - 1)
    ELSE ZeroPad(DecStr(N), NumDigits(N), FrameWidth)

\* a frame name made from the last six digits of the frame number
_format_frame_name_mod(N) == "time_" \o format_07d(N % 1000000)

\* a frame name that does not depend on the frame number
_format_frame_name_const(N) == "time_" \o format_07d(0)

_format_frame_name(N) == "time_" \o format_07d(N)

(***************************************************************************)
(* The h5py container.                                                     *)
(***************************************************************************)
GroupNode(attrs) == [kind |-> "group", data |-> NoData, attrs |-> attrs]
DatasetNode(data, attrs) == [kind |-> "dataset", data |-> data, attrs |-> attrs]

Prefix(p, n) == SubSeq(p, 1, n)

IsPrefix(p, q) == Len(p) <= Len(q) /\ Prefix(q, Len(p)) = p

\* h5py lookup obj[path]: the node is there when the path is in the map
h5_exists(F, p) == p \in DOMAIN F

h5_kind(F, p) == IF p \in DOMAIN F THEN F[p].kind ELSE "absent"

\* the proper prefixes of p that are not yet in the container
MissingParents(F, p) ==
    {Prefix(p, n) : n \in 1..(Len(p) - 1)} \ DOMAIN F

\* a proper prefix of p exists and is a dataset: nothing can be linked below it
BlockedByDataset(F, p) ==
    \E n \in 1..(Len(p) - 1) : h5_kind(F, Prefix(p, n)) = "dataset"

\* h5py Group.require_group(path)
h5_require_group(F, p) ==
    IF h5_kind(F, p) = "group" THEN [err |-> "none", file |-> F]
    ELSE IF h5_kind(F, p) = "dataset" \/ BlockedByDataset(F, p)
    THEN [err |-> "TypeError", file |-> F]
    ELSE [err |-> "none",
          file |-> [q \in DOMAIN F \cup MissingParents(F, p) \cup {p} |->
                       IF q \in DOMAIN F THEN F[q] ELSE GroupNode(EmptyMap)]]

\* what the hdf stack stores
h5_supported(data) == data.dtype # "float16"

\* h5py Group.create_dataset(name, data=data): the dataset is built first and
\* linked second, so a failure leaves the container as it was
h5_create_dataset(F, p, data) ==
    IF ~h5_supported(data) THEN [err |-> "h5_error", file |-> F]
    ELSE IF h5_exists(F, p) \/ BlockedByDataset(F, p)
    THEN [err |-> "h5_error", file |-> F]
    ELSE [err |-> "none",
          file |-> [q \in DOMAIN F \cup MissingParents(F, p) \cup {p} |->
                       IF q = p THEN DatasetNode(data, EmptyMap)
                       ELSE IF q \in DOMAIN F THEN F[q]
                       ELSE GroupNode(EmptyMap)]]

\* del grp[name]: unlinks the node and everything below it
h5_delete(F, p) == [q \in {r \in DOMAIN F : ~IsPrefix(p, r)} |-> F[q]]

\* attributes that are kept on the frame group instead of on the node
h5_set_attrs_frame(F, p, meta_data) ==
    [F EXCEPT ![Prefix(p, 1)].attrs =
        [k \in DOMAIN F[Prefix(p, 1)].attrs \cup DOMAIN meta_data |->
            IF k \in DOMAIN meta_data THEN meta_data[k]
            ELSE F[Prefix(p, 1)].attrs[k]]]

\* obj.attrs[key] = value for every item of meta_data
h5_set_attrs(F, p, meta_data) ==
    [F EXCEPT ![p].attrs =
        [k \in DOMAIN F[p].attrs \cup DOMAIN meta_data |->
            IF k \in DOMAIN meta_data THEN meta_data[k] ELSE F[p].attrs[k]]]

\* np.asarray(data): an ndarray is returned as it is, a list of ints
\* becomes an int64 array
np_asarray(data) ==
    IF data.dtype = "list" THEN [dtype |-> "int64", elems |-> data.elems]
    ELSE data

(***************************************************************************)
(* SM_serial: the instance fields and the checks every method starts with. *)
(***************************************************************************)
_VALID_FILE_MODES == {"r", "r+", "w", "w-", "a"}

\* no instance yet
NoStore ==
    [born |-> FALSE, is_open |-> FALSE, write_flg |-> FALSE,
     file_closes |-> 0, deleted |-> FALSE, opened_r |-> FALSE]

\* __init__(file_obj, write_flg); file_closes counts the calls of
\* self._file.close(), opened_r remembers that the mode given was 'r'
SM_init(write_flg) ==
    [born |-> TRUE, is_open |-> TRUE, write_flg |-> write_flg,
     file_closes |-> 0, deleted |-> FALSE, opened_r |-> FALSE]

\* close() without the test of self._open
SM_close_unguarded(st) ==
    [st EXCEPT !.is_open = FALSE, !.file_closes = st.file_closes + 1]

\* close() that flips self._open
SM_close_toggle(st) ==
    IF st.is_open
    THEN [st EXCEPT !.is_open = FALSE, !.file_closes = st.file_closes + 1]
    ELSE [st EXCEPT !.is_open = TRUE]

\* close(): the backing file is closed only when the store is still open
SM_close(st) ==
    IF st.is_open
    THEN [st EXCEPT !.is_open = FALSE, !.file_closes = st.file_closes + 1]
    ELSE st

\* __del__(): calls close(), after which the instance is gone
SM_del(st) == [SM_close(st) EXCEPT !.deleted = TRUE]

Raise(err, F) == [err |-> err, file |-> F, ret |-> None]
Return(F, ret) == [err |-> "none", file |-> F, ret |-> ret]

\* 'if not self._open: raise RuntimeError(...)'
check_open(st) == IF ~st.is_open THEN "closed" ELSE "none"

\* the mutating methods without the test of self._write
check_open_only(st) == IF ~st.is_open THEN "closed" ELSE "none"

\* the mutating methods with the two tests in the other order
check_write_open(st) ==
    IF ~st.write_flg THEN "readonly"
    ELSE IF ~st.is_open THEN "closed"
    ELSE "none"

\* the two checks the mutating methods start with, in the code's order
check_open_write(st) ==
    IF ~st.is_open THEN "closed"
    ELSE IF ~st.write_flg THEN "readonly"
    ELSE "none"

FramePath(frame_num) == <<_format_frame_name(frame_num)>>

DsetPath(frame_num, data_set) == FramePath(frame_num) \o data_set

\* _require_grp(path): require_group, a TypeError is printed and re-raised
_require_grp(F, path) == h5_require_group(F, path)

\* _open_group(path)
_open_group(F, path) ==
    IF ~h5_exists(F, path) THEN "KeyError"
    ELSE IF F[path].kind # "group" THEN "not_a_group"
    ELSE "none"

\* _object_set_md that tests each key as it comes to it: the keys that
\* are new are written although the call raises
_object_set_md_partial(F, p, meta_data, over_write) ==
    IF ~over_write /\ \E k \in DOMAIN meta_data : k \in DOMAIN F[p].attrs
    THEN Raise("conflict",
               h5_set_attrs(F, p,
                   [k \in DOMAIN meta_data \ DOMAIN F[p].attrs |-> meta_data[k]]))
    ELSE Return(h5_set_attrs(F, p, meta_data), None)

\* _object_set_md that never replaces the value of an existing key
_object_set_md_keep(F, p, meta_data, over_write) ==
    IF ~over_write /\ \E k \in DOMAIN meta_data : k \in DOMAIN F[p].attrs
    THEN Raise("conflict", F)
    ELSE Return(h5_set_attrs(F, p,
                   [k \in DOMAIN meta_data \ DOMAIN F[p].attrs |-> meta_data[k]]),
                None)

\* _object_set_md(obj, meta_data, over_write), obj the node at path p
_object_set_md(F, p, meta_data, over_write) ==
    IF ~over_write /\ \E k \in DOMAIN meta_data : k \in DOMAIN F[p].attrs
    THEN Raise("conflict", F)
    ELSE Return(h5_set_attrs(F, p, meta_data), None)

\* a walk that lists the data sets of the base object only, no sub-groups
RECURSIVE subgroup_walk_flat(_, _, _, _)
subgroup_walk_flat(F, base, base_path, i) ==
    IF i > Len(KeyOrder) THEN <<>>
    ELSE LET key == KeyOrder[i]
             here == IF h5_kind(F, Append(base, key)) = "dataset"
                     THEN <<base_path \o "/" \o key>>
                     ELSE <<>>
         IN here \o subgroup_walk_flat(F, base, base_path, i + 1)

\* _subgroup_recurse(base_object, base_path), the keys taken from position i on
RECURSIVE subgroup_walk(_, _, _, _)
subgroup_walk(F, base, base_path, i) ==
    IF i > Len(KeyOrder) THEN <<>>
    ELSE LET key == KeyOrder[i]
             p == Append(base, key)
             here == IF h5_kind(F, p) = "dataset"
                     THEN <<base_path \o "/" \o key>>
                     ELSE IF h5_kind(F, p) = "group"
                     THEN subgroup_walk(F, p, base_path \o "/" \o key, 1)
                     ELSE <<>>
         IN here \o subgroup_walk(F, base, base_path, i + 1)

_subgroup_recurse(F, base, base_path) == subgroup_walk(F, base, base_path, 1)

(***************************************************************************)
(* SM_serial: the methods, as functions of the container F and the         *)
(* instance st.  Each yields the exception raised ("none" when the call    *)
(* returns), the container after the call and the value returned.          *)
(***************************************************************************)

\* loads that reads every data set from frame 0
loads_frame0(F, st, frame_num, data_set) ==
    LET p == DsetPath(0, data_set)
    IN IF check_open(st) # "none" THEN Raise(check_open(st), F)
       ELSE IF ~h5_exists(F, FramePath(0)) THEN Raise("KeyError", F)
       ELSE IF ~h5_exists(F, p) THEN Raise("KeyError", F)
       ELSE IF F[p].kind # "dataset" THEN Raise("TypeError", F)
       ELSE Return(F, F[p].data)

\* loads: self._file[frame][data_set][:]
\* loads that returns None, without an error, when the name is a group
loads_group_quiet(F, st, frame_num, data_set) ==
    LET p == DsetPath(frame_num, data_set)
    IN IF check_open(st) # "none" THEN Raise(check_open(st), F)
       ELSE IF ~h5_exists(F, FramePath(frame_num)) THEN Raise("KeyError", F)
       ELSE IF ~h5_exists(F, p) THEN Raise("KeyError", F)
       ELSE IF F[p].kind # "dataset" THEN Return(F, None)
       ELSE Return(F, F[p].data)

loads(F, st, frame_num, data_set) ==
    LET p == DsetPath(frame_num, data_set)
    IN IF check_open(st) # "none" THEN Raise(check_open(st), F)
       ELSE IF ~h5_exists(F, FramePath(frame_num)) THEN Raise("KeyError", F)
       ELSE IF ~h5_exists(F, p) THEN Raise("KeyError", F)
       ELSE IF F[p].kind # "dataset" THEN Raise("TypeError", F)
       ELSE Return(F, F[p].data)

\* dumps that replaces an existing data set whatever over_write says
dumps_dset_always(F, p, data, over_write) ==
    IF ~h5_exists(F, p) THEN h5_create_dataset(F, p, data)
    ELSE IF F[p].kind # "dataset"
    THEN [err |-> "group_not_dataset", file |-> F]
    ELSE h5_create_dataset(h5_delete(F, p), p, data)

\* dumps that leaves an existing data set whatever over_write says
dumps_dset_never(F, p, data, over_write) ==
    IF ~h5_exists(F, p) THEN h5_create_dataset(F, p, data)
    ELSE [err |-> "none", file |-> F]

\* dumps, lines 174-187: look the data set up, create it, or replace it
\* dumps that deletes what is at the name before it looks at its kind
dumps_dset_delete_first(F, p, data, over_write) ==
    IF ~h5_exists(F, p) THEN h5_create_dataset(F, p, data)
    ELSE IF over_write
    THEN IF F[p].kind # "dataset"
         THEN [err |-> "group_not_dataset", file |-> h5_delete(F, p)]
         ELSE h5_create_dataset(h5_delete(F, p), p, data)
    ELSE [err |-> "none", file |-> F]

\* dumps that replaces the data in place, the attributes stay
dumps_dset_in_place(F, p, data, over_write) ==
    IF ~h5_exists(F, p) THEN h5_create_dataset(F, p, data)
    ELSE IF over_write
    THEN IF F[p].kind # "dataset"
         THEN [err |-> "group_not_dataset", file |-> F]
         ELSE IF h5_supported(data)
         THEN [err |-> "none", file |-> [F EXCEPT ![p].data = data]]
         ELSE [err |-> "h5_error", file |-> F]
    ELSE [err |-> "none", file |-> F]

dumps_dset(F, p, data, over_write) ==
    IF ~h5_exists(F, p) THEN h5_create_dataset(F, p, data)
    ELSE IF over_write
    THEN IF F[p].kind # "dataset"
         THEN [err |-> "group_not_dataset", file |-> F]
         ELSE h5_create_dataset(h5_delete(F, p), p, data)
    ELSE [err |-> "none", file |-> F]

\* dumps, lines 188-191: 'if meta_data:' then set every item on dset
\* dumps that drops the meta_data argument
dumps_md_skip(F, p, meta_data) == F

dumps_md(F, p, meta_data) ==
    IF meta_data # EmptyMap THEN h5_set_attrs(F, p, meta_data) ELSE F

dumps(F, st, frame_num, data_set, data, meta_data, over_write) ==
    LET chk == check_open_write(st)
        arr == np_asarray(data)
        grp == _require_grp(F, FramePath(frame_num))
        p == DsetPath(frame_num, data_set)
        dset == dumps_dset(grp.file, p, arr, over_write)
    IN IF chk # "none" THEN Raise(chk, F)
       ELSE IF grp.err # "none" THEN Raise(grp.err, grp.file)
       ELSE IF dset.err # "none" THEN Raise(dset.err, dset.file)
       ELSE Return(dumps_md(dset.file, p, meta_data), None)

\* update_dset_md that makes the data set when it is not there
update_dset_md_create(F, st, frame_num, dset_name, meta_data, over_write) ==
    LET chk == check_open_write(st)
        grp == _require_grp(F, FramePath(frame_num))
        p == DsetPath(frame_num, dset_name)
        made == IF h5_exists(grp.file, p) THEN [err |-> "none", file |-> grp.file]
                ELSE h5_create_dataset(grp.file, p, [dtype |-> "int64", elems |-> <<>>])
    IN IF chk # "none" THEN Raise(chk, F)
       ELSE IF grp.err # "none" THEN Raise(grp.err, grp.file)
       ELSE IF made.err # "none" THEN Raise("KeyError", made.file)
       ELSE _object_set_md(made.file, p, meta_data, over_write)

update_dset_md(F, st, frame_num, dset_name, meta_data, over_write) ==
    LET chk == check_open_write(st)
        grp == _require_grp(F, FramePath(frame_num))
        p == DsetPath(frame_num, dset_name)
    IN IF chk # "none" THEN Raise(chk, F)
       ELSE IF grp.err # "none" THEN Raise(grp.err, grp.file)
       ELSE IF ~h5_exists(grp.file, p) THEN Raise("KeyError", grp.file)
       ELSE _object_set_md(grp.file, p, meta_data, over_write)

set_frame_md(F, st, frame_num, meta_data, over_write) ==
    LET chk == check_open_write(st)
        grp == _require_grp(F, FramePath(frame_num))
    IN IF chk # "none" THEN Raise(chk, F)
       ELSE IF grp.err # "none" THEN Raise(grp.err, grp.file)
       ELSE _object_set_md(grp.file, FramePath(frame_num), meta_data, over_write)

\* get_frame_md that gets the frame group with _require_grp
get_frame_md_require(F, st, frame_num) ==
    LET g == FramePath(frame_num)
        grp == _require_grp(F, g)
    IN IF check_open(st) # "none" THEN Raise(check_open(st), F)
       ELSE IF grp.err # "none" THEN Raise(grp.err, grp.file)
       ELSE Return(grp.file, grp.file[g].attrs)

get_frame_md(F, st, frame_num) ==
    LET g == FramePath(frame_num)
    IN IF check_open(st) # "none" THEN Raise(check_open(st), F)
       ELSE IF _open_group(F, g) # "none" THEN Raise(_open_group(F, g), F)
       ELSE Return(F, F[g].attrs)

get_dset_md(F, st, frame_num, dset_name) ==
    LET g == FramePath(frame_num)
        p == DsetPath(frame_num, dset_name)
    IN IF check_open(st) # "none" THEN Raise(check_open(st), F)
       ELSE IF _open_group(F, g) # "none" THEN Raise(_open_group(F, g), F)
       ELSE IF ~h5_exists(F, p) THEN Raise("KeyError", F)
       ELSE Return(F, F[p].attrs)

list_dsets(F, st, frame_num) ==
    LET g == FramePath(frame_num)
    IN IF check_open(st) # "none" THEN Raise(check_open(st), F)
       ELSE IF _open_group(F, g) # "none" THEN Raise(_open_group(F, g), F)
       ELSE Return(F, _subgroup_recurse(F, g, ""))

\* SM_serial.open, lines 86-93: None and unknown modes become 'a'
patch_fmode(fmode) ==
    IF fmode = None THEN "a"
    ELSE IF fmode \notin _VALID_FILE_MODES THEN "a"
    ELSE fmode

\* a write flag that is set for the creating modes only
write_flag_creating(fmode) == fmode \in {"w", "w-", "a"}

\* SM_serial.open, line 96
write_flag(fmode) == fmode # "r"

EmptyFile == [p \in {} |-> GroupNode(EmptyMap)]

\* h5py.File(fname, fmode), by the table in the docstring of SM_serial.open
h5py_File(exists, F, fmode) ==
    CASE fmode \in {"r", "r+"} ->
            IF exists THEN [err |-> "none", fexists |-> TRUE, file |-> F]
            ELSE [err |-> "IOError", fexists |-> exists, file |-> F]
      [] fmode = "w" -> [err |-> "none", fexists |-> TRUE, file |-> EmptyFile]
      [] fmode = "w-" ->
            IF exists THEN [err |-> "IOError", fexists |-> exists, file |-> F]
            ELSE [err |-> "none", fexists |-> TRUE, file |-> EmptyFile]
      [] OTHER -> [err |-> "none", fexists |-> TRUE, file |-> F]

(***************************************************************************)
(* The state machine: the calls of the program that uses the store.  The   *)
(* program holds one instance at a time; it makes a call, looks at what    *)
(* came back (last), and goes on.                                          *)
(***************************************************************************)
DataOps ==
    {"loads", "dumps", "update_dset_md", "set_frame_md", "get_frame_md",
     "get_dset_md", "list_dsets"}

MutatingOps == {"dumps", "update_dset_md", "set_frame_md"}

\* the record kept of a call; pre is what was at the call's target before it
Call(op, frame, name, data, md, ow, fmode, pre, err, ret) ==
    [op |-> op, frame |-> frame, name |-> name, data |-> data, md |-> md,
     ow |-> ow, fmode |-> fmode, pre |-> pre, err |-> err, ret |-> ret]

Idle ==
    Call("idle", 0, <<>>, NoData, EmptyMap, FALSE, None, "absent", "none", None)

Key(frame_num, data_set) == [frame |-> frame_num, name |-> data_set]

NothingWritten == [k \in {} |-> NoData]

Usable == last.op = "idle" /\ store.born /\ ~store.deleted

Init ==
    /\ fexists = FALSE
    /\ file = EmptyFile
    /\ store = NoStore
    /\ last = Idle
    /\ written = NothingWritten

\* SM_serial.open(fname, fmode), made when no instance holds the file open
Open(fmode) ==
    LET mode == patch_fmode(fmode)
        h5 == h5py_File(fexists, file, mode)
    IN /\ last.op = "idle"
       /\ ~store.is_open
       /\ fexists' = h5.fexists
       /\ file' = h5.file
       /\ store' = IF h5.err = "none"
                   THEN [SM_init(write_flag(mode)) EXCEPT !.opened_r = (fmode = "r")]
                   ELSE store
       /\ written' = IF h5.file = file THEN written ELSE NothingWritten
       /\ last' = Call("open", 0, <<>>, NoData, EmptyMap, FALSE, fmode,
                       "absent", h5.err, mode)

Close ==
    /\ Usable
    /\ store' = SM_close(store)
    /\ last' = Call("close", 0, <<>>, NoData, EmptyMap, FALSE, None,
                    IF store.is_open THEN "open" ELSE "closed", "none", None)
    /\ UNCHANGED <<fexists, file, written>>

Del ==
    /\ Usable
    /\ store' = SM_del(store)
    /\ last' = Call("del", 0, <<>>, NoData, EmptyMap, FALSE, None,
                    IF store.is_open THEN "open" ELSE "closed", "none", None)
    /\ UNCHANGED <<fexists, file, written>>

Loads(f, n) ==
    LET r == loads(file, store, f, n)
    IN /\ Usable
       /\ file' = r.file
       /\ last' = Call("loads", f, n, NoData, EmptyMap, FALSE, None,
                       h5_kind(file, DsetPath(f, n)), r.err, r.ret)
       /\ UNCHANGED <<fexists, store, written>>

\* what the history holds after a dumps call: the data of a call that
\* returned and created or replaced the dataset; nothing for a data set
\* that a failed replacement touched
Dumped(r, f, n, data, ow) ==
    LET pre == h5_kind(file, DsetPath(f, n))
        k == Key(f, n)
    IN IF r.err = "none" /\ (pre = "absent" \/ (pre = "dataset" /\ ow))
       THEN [q \in DOMAIN written \cup {k} |->
                IF q = k THEN data ELSE written[q]]
       ELSE IF r.err # "none" /\ r.file # file /\ ow
       THEN [q \in DOMAIN written \ {k} |-> written[q]]
       ELSE written

Dumps(f, n, data, md, ow) ==
    LET r == dumps(file, store, f, n, data, md, ow)
    IN /\ Usable
       /\ file' = r.file
       /\ last' = Call("dumps", f, n, data, md, ow, None,
                       h5_kind(file, DsetPath(f, n)), r.err, r.ret)
       /\ written' = Dumped(r, f, n, data, ow)
       /\ UNCHANGED <<fexists, store>>

UpdateDsetMd(f, n, md, ow) ==
    LET r == update_dset_md(file, store, f, n, md, ow)
    IN /\ Usable
       /\ file' = r.file
       /\ last' = Call("update_dset_md", f, n, NoData, md, ow, None,
                       h5_kind(file, DsetPath(f, n)), r.err, r.ret)
       /\ UNCHANGED <<fexists, store, written>>

SetFrameMd(f, md, ow) ==
    LET r == set_frame_md(file, store, f, md, ow)
    IN /\ Usable
       /\ file' = r.file
       /\ last' = Call("set_frame_md", f, <<>>, NoData, md, ow, None,
                       h5_kind(file, FramePath(f)), r.err, r.ret)
       /\ UNCHANGED <<fexists, store, written>>

GetFrameMd(f) ==
    LET r == get_frame_md(file, store, f)
    IN /\ Usable
       /\ file' = r.file
       /\ last' = Call("get_frame_md", f, <<>>, NoData, EmptyMap, FALSE, None,
                       h5_kind(file, FramePath(f)), r.err, r.ret)
       /\ UNCHANGED <<fexists, store, written>>

GetDsetMd(f, n) ==
    LET r == get_dset_md(file, store, f, n)
    IN /\ Usable
       /\ file' = r.file
       /\ last' = Call("get_dset_md", f, n, NoData, EmptyMap, FALSE, None,
                       h5_kind(file, DsetPath(f, n)), r.err, r.ret)
       /\ UNCHANGED <<fexists, store, written>>

ListDsets(f) ==
    LET r == list_dsets(file, store, f)
    IN /\ Usable
       /\ file' = r.file
       /\ last' = Call("list_dsets", f, <<>>, NoData, EmptyMap, FALSE, None,
                       h5_kind(file, FramePath(f)), r.err, r.ret)
       /\ UNCHANGED <<fexists, store, written>>

\* the caller has looked at the outcome of the call and goes on
Resume ==
    /\ last.op # "idle"
    /\ last' = Idle
    /\ UNCHANGED <<fexists, file, store, written>>

\* the calls over the inputs U: frames, names, data, meta-data maps, modes
NextOn(U) ==
    \/ \E m \in U.modes : Open(m)
    \/ Close
    \/ Del
    \/ \E f \in U.frames, n \in U.names : Loads(f, n)
    \/ \E f \in U.frames, n \in U.names, d \in U.data, md \in U.md,
          ow \in BOOLEAN : Dumps(f, n, d, md, ow)
    \/ \E f \in U.frames, n \in U.names, md \in U.md, ow \in BOOLEAN :
          UpdateDsetMd(f, n, md, ow)
    \/ \E f \in U.frames, md \in U.md, ow \in BOOLEAN : SetFrameMd(f, md, ow)
    \/ \E f \in U.frames : GetFrameMd(f)
    \/ \E f \in U.frames, n \in U.names : GetDsetMd(f, n)
    \/ \E f \in U.frames : ListDsets(f)
    \/ Resume

\* every file mode, several frames, all data values
Inputs ==
    [frames |-> Frames, names |-> {NameA}, data |-> DataValues,
     md |-> {EmptyMap, MdA}, modes |-> FileModes]

Next == NextOn(Inputs)

Spec == Init /\ [][Next]_vars

\* one frame, every meta-data map
InputsMd ==
    [frames |-> {0}, names |-> {NameA}, data |-> {DataList},
     md |-> MdMaps, modes |-> {"w", "r+", "r"}]

NextMd == NextOn(InputsMd)

SpecMd == Init /\ [][NextMd]_vars

\* self._format_frame_name(N) called on its own; the call needs no open file
FormatFrameName(N) ==
    /\ last' = Call("_format_frame_name", N, <<>>, NoData, EmptyMap, FALSE, None,
                    "absent", "none", _format_frame_name(N))
    /\ UNCHANGED <<fexists, file, store, written>>

\* frame numbers of up to seven digits: the small ones and those around each
\* change of the number of digits
FrameNumbers ==
    0..MaxSmallFrame \cup
    {999, 1000, 9999, 10000, 99999, 100000, 999999, 1000000, 1000001,
     1000042, 9999998, 9999999}

NextFmt == \E N \in FrameNumbers : FormatFrameName(N)

SpecFmt == Init /\ [][NextFmt]_vars

\* one frame, the names 'a', 'b' and 'b/c': data sets and groups below a frame
InputsTree ==
    [frames |-> {0}, names |-> {NameA, NameB, NameBC},
     data |-> {DataList, DataF16}, md |-> {EmptyMap, MdA},
     modes |-> {"w", "r+", "r"}]

NextTree == NextOn(InputsTree)

SpecTree == Init /\ [][NextTree]_vars

(***************************************************************************)
(* The claims.  A step that makes a call leaves the call in last', with    *)
(* the unprimed variables the state the call was made in.                  *)
(***************************************************************************)

\* what a read gives back for data handed to dumps: the same elements, with
\* the dtype of the array, a list of ints read back as int64
ReadBack(data) ==
    [dtype |-> IF data.dtype = "list" THEN "int64" ELSE data.dtype,
     elems |-> data.elems]

\* the node a metadata call is aimed at
Target(c) ==
    IF c.op = "set_frame_md" THEN FramePath(c.frame)
    ELSE DsetPath(c.frame, c.name)

AttrsAt(F, p) == IF p \in DOMAIN F THEN F[p].attrs ELSE EmptyMap

WritableOpen == store.is_open /\ store.write_flg

\* C1: on a store opened with mode 'r' every dumps, set_frame_md and
\* update_dset_md fails with the read-only error, no step of such a store
\* changes the container, and loads of a data set that is there returns it.
C1_ReadOnlyStore ==
    [][(store'.born /\ store'.opened_r) =>
          /\ file' = file
          /\ (last'.op \in MutatingOps /\ store.is_open =>
                 last'.err = "readonly")
          /\ (last'.op = "loads" /\ store.is_open /\ last'.pre = "dataset" =>
                 /\ last'.err = "none"
                 /\ last'.ret = file[DsetPath(last'.frame, last'.name)].data)
      ]_vars

C1_Witness ==
    /\ last.op = "dumps"
    /\ store.opened_r /\ store.is_open
    /\ last.pre = "dataset"
    /\ last.err = "readonly"

\* C2: on a closed store each of the seven data methods fails with the
\* closed-store error and leaves the container as it was, also when the
\* store was opened read-only and the call is a mutating one.
C2_ClosedStore ==
    [][(last'.op \in DataOps /\ ~store.is_open) =>
          /\ last'.err = "closed"
          /\ file' = file
      ]_vars

C2_Witness ==
    /\ last.op = "update_dset_md"
    /\ store.born /\ ~store.is_open /\ ~store.write_flg
    /\ last.err = "closed"

\* C3: no close() (nor the one made by __del__) raises, the backing file
\* is closed exactly once, and a close() of a closed store changes nothing.
C3_CloseIdempotent ==
    [][(last'.op \in {"close", "del"}) =>
          /\ last'.err = "none"
          /\ ~store'.is_open
          /\ store'.file_closes = 1
          /\ file' = file
          /\ (last'.op = "close" /\ ~store.is_open => store' = store)
          /\ (last'.op = "del" /\ ~store.is_open =>
                 store' = [store EXCEPT !.deleted = TRUE])
      ]_vars

C3_Witness ==
    /\ last.op = "close"
    /\ last.pre = "closed"
    /\ store.file_closes = 1

\* C4: an instance that is closed never is open again, and its write flag
\* never changes; only open() makes an instance, and makes it open.
C4_Lifecycle ==
    [][IF last'.op = "open" /\ last'.err = "none"
       THEN store'.born /\ store'.is_open /\ ~store'.deleted
       ELSE /\ store'.born = store.born
            /\ store'.write_flg = store.write_flg
            /\ (~store.is_open => ~store'.is_open)
            /\ (store.deleted => store'.deleted)
      ]_vars

C4_Witness ==
    /\ last.op = "close"
    /\ last.pre = "closed"
    /\ store.write_flg
    /\ ~store.is_open

\* C5: the data of a dumps that returned and created the data set is what
\* loads returns, elements and dtype, on the store that wrote it and on a
\* store opened later, for every frame and name written.
C5_RoundTrip ==
    /\ \A k \in DOMAIN written :
          (store.born /\ store.is_open) =>
              loads(file, store, k.frame, k.name)
                  = Return(file, ReadBack(written[k]))
    /\ (/\ last.op = "loads"
        /\ last.err # "closed"
        /\ Key(last.frame, last.name) \in DOMAIN written) =>
           /\ last.err = "none"
           /\ last.ret = ReadBack(written[Key(last.frame, last.name)])
    /\ (last.op = "dumps" /\ last.err = "none" /\ last.pre = "absent") =>
           /\ Key(last.frame, last.name) \in DOMAIN written
           /\ written[Key(last.frame, last.name)] = last.data

C5_Witness ==
    /\ last.op = "loads"
    /\ last.frame = MaxFrame
    /\ last.err = "none"
    /\ store.opened_r
    /\ Key(last.frame, last.name) \in DOMAIN written
    /\ written[Key(last.frame, last.name)] = DataF64

\* C6: dumps with over_write=False on a data set that is there raises
\* nothing and leaves its data as it was: loads returns what it returned
\* before the call.
C6_FirstWriteWins ==
    [][(/\ last'.op = "dumps"
        /\ ~last'.ow
        /\ last'.pre = "dataset"
        /\ WritableOpen) =>
           LET p == DsetPath(last'.frame, last'.name)
           IN /\ last'.err = "none"
              /\ h5_kind(file', p) = "dataset"
              /\ file'[p].data = file[p].data
              /\ loads(file', store', last'.frame, last'.name).err = "none"
              /\ loads(file', store', last'.frame, last'.name).ret
                     = loads(file, store, last'.frame, last'.name).ret
              /\ written' = written
      ]_vars

C6_Witness ==
    /\ last.op = "dumps"
    /\ ~last.ow
    /\ last.pre = "dataset"
    /\ last.err = "none"
    /\ ReadBack(last.data) # file[DsetPath(last.frame, last.name)].data

\* C7: dumps with over_write=False on a data set that is there changes
\* nothing in the container, its attribute map included, also when
\* meta_data is given.
C7_NoOpOnExisting ==
    [][(/\ last'.op = "dumps"
        /\ ~last'.ow
        /\ last'.pre = "dataset"
        /\ WritableOpen) =>
           file' = file
      ]_vars

\* C8: a dumps with over_write=True on a data set that is there which
\* returns has replaced it: loads returns the new data with its dtype.
C8_Overwrite ==
    (/\ last.op = "dumps"
     /\ last.ow
     /\ last.pre = "dataset"
     /\ last.err = "none") =>
        LET r == loads(file, store, last.frame, last.name)
        IN /\ r.err = "none"
           /\ r.ret = ReadBack(last.data)
           /\ file[DsetPath(last.frame, last.name)].kind = "dataset"

C8_Witness ==
    /\ last.op = "dumps"
    /\ last.ow
    /\ last.pre = "dataset"
    /\ last.err = "none"
    /\ last.data = DataF64
    /\ file[DsetPath(last.frame, last.name)].data.dtype = "float64"

\* C9: set_frame_md or update_dset_md with over_write=False and a key that
\* is on the target already raises the conflict error and leaves the
\* target's attribute map as it was.
C9_ConflictAtomic ==
    [][(/\ last'.op \in {"set_frame_md", "update_dset_md"}
        /\ ~last'.ow
        /\ WritableOpen
        /\ DOMAIN last'.md \cap DOMAIN AttrsAt(file, Target(last')) # {}) =>
           /\ last'.err = "conflict"
           /\ Target(last') \in DOMAIN file'
           /\ file'[Target(last')].attrs = file[Target(last')].attrs
      ]_vars

C9_Witness ==
    /\ last.op = "update_dset_md"
    /\ last.err = "conflict"
    /\ \E k \in DOMAIN last.md : k \notin DOMAIN AttrsAt(file, Target(last))
    /\ \E k \in DOMAIN last.md \cap DOMAIN AttrsAt(file, Target(last)) :
          last.md[k] # file[Target(last)].attrs[k]

\* C10: set_frame_md or update_dset_md with over_write=True, or with keys
\* none of which is on the target, returns, and the target then maps the
\* incoming keys to the incoming values and the other keys to their old ones.
C10_SetMd ==
    [][(/\ last'.op \in {"set_frame_md", "update_dset_md"}
        /\ WritableOpen
        /\ (last'.op = "update_dset_md" => last'.pre = "dataset")
        /\ (last'.ow \/ DOMAIN last'.md \cap
                            DOMAIN AttrsAt(file, Target(last')) = {})) =>
           LET old == AttrsAt(file, Target(last'))
           IN /\ last'.err = "none"
              /\ Target(last') \in DOMAIN file'
              /\ DOMAIN file'[Target(last')].attrs
                     = DOMAIN old \cup DOMAIN last'.md
              /\ \A k \in DOMAIN last'.md :
                    file'[Target(last')].attrs[k] = last'.md[k]
              /\ \A k \in DOMAIN old \ DOMAIN last'.md :
                    file'[Target(last')].attrs[k] = old[k]
      ]_vars

C10_Witness ==
    /\ last.op = "set_frame_md"
    /\ last.ow
    /\ last.err = "none"
    /\ last.md = MdB
    /\ AttrsAt(file, Target(last)) = [k \in {"k1", "k2"} |-> IF k = "k1" THEN 2 ELSE 1]

\* C11: update_dset_md on a (frame, name) where nothing was written fails
\* with the not-found error, and no update_dset_md call makes a data set:
\* a data set is at (frame, name) after the call only if it was before.
C11_UpdateNeedsDataset ==
    [][(last'.op = "update_dset_md" /\ WritableOpen) =>
          LET p == DsetPath(last'.frame, last'.name)
          IN /\ (last'.pre = "absent" => last'.err = "KeyError")
             /\ h5_kind(file', p) = h5_kind(file, p)
             /\ \A q \in DOMAIN file' \ DOMAIN file : file'[q].kind = "group"
      ]_vars

C11_Witness ==
    /\ last.op = "update_dset_md"
    /\ last.pre = "absent"
    /\ last.err = "KeyError"
    /\ last.md = MdA
    /\ h5_kind(file, DsetPath(last.frame, last.name)) = "absent"

\* C12: update_dset_md on a writable store for a frame whose group is not
\* there fails and leaves the container as it was: the group is not made.
C12_UpdateOpensFrame ==
    [][(/\ last'.op = "update_dset_md"
        /\ WritableOpen
        /\ ~h5_exists(file, FramePath(last'.frame))) =>
           /\ last'.err # "none"
           /\ file' = file
      ]_vars

\* C13: dumps to a name where a group is fails with the structural error,
\* with over_write True and with over_write False, and never sets the
\* meta_data on the group.
C13_DumpsOntoGroup ==
    [][(last'.op = "dumps" /\ last'.pre = "group" /\ WritableOpen) =>
          /\ last'.err = "group_not_dataset"
          /\ file'[DsetPath(last'.frame, last'.name)].attrs
                 = file[DsetPath(last'.frame, last'.name)].attrs
      ]_vars

\* C14: get_dset_md and update_dset_md on a name that is a group fail with
\* the structural error: the group's attribute map is neither returned nor
\* written.
C14_DsetMdOnGroup ==
    [][(/\ last'.op \in {"get_dset_md", "update_dset_md"}
        /\ last'.pre = "group"
        /\ store.is_open
        /\ (last'.op = "update_dset_md" => store.write_flg)) =>
           /\ last'.err # "none"
           /\ file' = file
      ]_vars

\* C15: a dumps, set_frame_md or update_dset_md call on frame f leaves every
\* other frame g as it was: g's group is not made, and no node under g (data
\* set, group, attribute map) is added, removed or changed.
C15_FrameIsolation ==
    [][(last'.op \in MutatingOps) =>
          \A g \in Frames \ {last'.frame} :
             \A p \in DOMAIN file \cup DOMAIN file' :
                p[1] = _format_frame_name(g) =>
                   /\ p \in DOMAIN file
                   /\ p \in DOMAIN file'
                   /\ file'[p] = file[p]
      ]_vars

C15_Witness ==
    /\ last.op = "dumps"
    /\ last.err = "none"
    /\ last.pre = "absent"
    /\ \E g \in Frames \ {last.frame} :
          /\ h5_kind(file, DsetPath(g, NameA)) = "dataset"
          /\ AttrsAt(file, DsetPath(g, NameA)) = MdA

\* the name of the node at path p relative to its frame: '/' before each part
RECURSIVE RelName(_, _)
RelName(p, i) ==
    IF i > Len(p) THEN "" ELSE "/" \o p[i] \o RelName(p, i + 1)

DsetsUnder(F, g) ==
    {p \in DOMAIN F : IsPrefix(g, p) /\ F[p].kind = "dataset"}

Listed(ret) == {ret[i] : i \in 1..Len(ret)}

\* C16: list_dsets(frame) returns, as a set, the '/'-prefixed relative paths
\* of all data sets below the frame group at any depth, each once and no
\* group among them; with 'a' and 'b/c' written it is {'/a', '/b/c'}.
C16_ListDsets ==
    (last.op = "list_dsets" /\ last.err = "none") =>
       LET g == FramePath(last.frame)
           names == {RelName(p, 2) : p \in DsetsUnder(file, g)}
       IN /\ Listed(last.ret) = names
          /\ Len(last.ret) = Cardinality(DsetsUnder(file, g))
          /\ (DsetsUnder(file, g) = {DsetPath(last.frame, NameA),
                                     DsetPath(last.frame, NameBC)}
                 => Listed(last.ret) = {"/a", "/b/c"})

C16_Witness ==
    /\ last.op = "list_dsets"
    /\ last.err = "none"
    /\ h5_kind(file, DsetPath(last.frame, NameB)) = "group"
    /\ Listed(last.ret) = {"/a", "/b/c"}

ReadOps == {"loads", "get_frame_md", "get_dset_md", "list_dsets"}

\* C17: loads, get_frame_md, get_dset_md and list_dsets never change the
\* container, whether they return or fail and whether the store is writable
\* or read-only; on an open store, for a frame whose group is not there,
\* they fail with the not-found error and the group is still not there.
C17_ReadsPure ==
    [][(last'.op \in ReadOps) =>
          /\ file' = file
          /\ fexists' = fexists
          /\ ((store.is_open /\ ~h5_exists(file, FramePath(last'.frame))) =>
                 (/\ last'.err = "KeyError"
                  /\ ~h5_exists(file', FramePath(last'.frame))))
      ]_vars

C17_Witness ==
    /\ last.op = "get_frame_md"
    /\ last.err = "KeyError"
    /\ store.is_open
    /\ store.write_flg
    /\ ~h5_exists(file, FramePath(last.frame))

\* C18: a frame group comes into being only by a call that writes to the
\* frame: a dumps or a set_frame_md on that frame that returns.  No call
\* leaves behind a frame group to which nothing was written.
C18_SparseFrames ==
    [][\A f \in Frames :
          (~h5_exists(file, FramePath(f)) /\ h5_exists(file', FramePath(f))) =>
             /\ last'.op \in {"dumps", "set_frame_md"}
             /\ last'.frame = f
             /\ last'.err = "none"
      ]_vars

\* C19: set_frame_md(f, m) on a frame with no attributes makes get_frame_md(f)
\* return m, and a dumps(f, name, data, meta_data = m) that creates the data
\* set makes get_dset_md(f, name) return m.  This also holds for a later
\* read-mode instance: closing, deleting, opening with 'r' and reading leave
\* the container as it is, and the two readers return the attribute map that
\* the container holds.
C19_MdRoundTrip ==
    [][LET f == last'.frame
           g == FramePath(last'.frame)
           p == DsetPath(last'.frame, last'.name)
       IN /\ (/\ last'.op = "set_frame_md"
              /\ last'.err = "none"
              /\ AttrsAt(file, g) = EmptyMap) =>
                 get_frame_md(file', store', f) = Return(file', last'.md)
          /\ (/\ last'.op = "dumps"
              /\ last'.err = "none"
              /\ last'.pre = "absent") =>
                 get_dset_md(file', store', f, last'.name) = Return(file', last'.md)
          /\ (\/ last'.op \in {"close", "del", "idle"} \cup ReadOps
              \/ (last'.op = "open" /\ last'.fmode = "r")) =>
                 file' = file
          /\ (last'.op = "get_frame_md" /\ last'.err = "none") =>
                 last'.ret = AttrsAt(file, g)
          /\ (last'.op = "get_dset_md" /\ last'.err = "none") =>
                 last'.ret = AttrsAt(file, p)
      ]_vars

C19_Witness ==
    /\ last.op = "get_dset_md"
    /\ last.err = "none"
    /\ store.is_open
    /\ store.opened_r
    /\ Key(last.frame, last.name) \in DOMAIN written
    /\ last.ret = MdC
    /\ AttrsAt(file, FramePath(last.frame)) = MdB

\* C20: a store that open returns is read-only exactly when the mode given
\* is 'r'; None and a mode that is not one of the five become 'a' before the
\* container is opened, so open with such a mode returns a writable store.
C20_OpenMode ==
    (last.op = "open") =>
       /\ (last.err = "none" =>
              /\ store.is_open
              /\ (~store.write_flg <=> last.fmode = "r"))
       /\ (last.fmode \notin _VALID_FILE_MODES =>
              /\ last.ret = "a"
              /\ last.err = "none"
              /\ store.write_flg)

C20_Witness ==
    /\ last.op = "open"
    /\ last.fmode \notin _VALID_FILE_MODES
    /\ last.fmode # None
    /\ last.ret = "a"
    /\ last.err = "none"
    /\ store.write_flg
    /\ fexists

\* C21: _format_frame_name(N) is 'time_' followed by N zero-padded to seven
\* digits (42 gives 'time_0000042', 0 gives 'time_0000000'), the same name
\* each time, and two distinct frame numbers of up to seven digits never get
\* the same name.
C21_FrameNames ==
    [][(last'.op = "_format_frame_name") =>
          /\ last'.ret = "time_" \o ZeroPad(DecStr(last'.frame),
                                            NumDigits(last'.frame), 7)
          /\ (last'.frame = 42 => last'.ret = "time_0000042")
          /\ (last'.frame = 0 => last'.ret = "time_0000000")
          /\ (last'.frame = 1000042 => last'.ret = "time_1000042")
          /\ (last.op = "_format_frame_name" =>
                 (last'.frame = last.frame <=> last'.ret = last.ret))
      ]_vars

C21_Witness ==
    /\ last.op = "_format_frame_name"
    /\ last.frame = 42
    /\ last.ret = "time_0000042"

\* C22: a dumps, set_frame_md or update_dset_md call that returns changes one
\* node only, its target: every other node that was there (each other data
\* set with its data and attribute map, the frame group's attribute map for
\* dumps and update_dset_md, each data set for set_frame_md) is as before,
\* the only nodes added besides the target are empty groups above it, and
\* the two meta-data calls change no data, whatever keys are used elsewhere.
C22_OneTarget ==
    [][(last'.op \in MutatingOps /\ last'.err = "none") =>
          LET t == Target(last')
          IN /\ \A q \in DOMAIN file \ {t} :
                   q \in DOMAIN file' /\ file'[q] = file[q]
             /\ \A q \in DOMAIN file' \ (DOMAIN file \cup {t}) :
                   IsPrefix(q, t) /\ file'[q] = GroupNode(EmptyMap)
             /\ ((last'.op # "dumps" /\ t \in DOMAIN file) =>
                    /\ file'[t].kind = file[t].kind
                    /\ file'[t].data = file[t].data)
      ]_vars

C22_Witness ==
    /\ last.op = "update_dset_md"
    /\ last.err = "none"
    /\ ~last.ow
    /\ last.name = NameA
    /\ last.md = MdA
    /\ AttrsAt(file, FramePath(last.frame)) = MdA
    /\ h5_kind(file, DsetPath(last.frame, NameBC)) = "dataset"
    /\ AttrsAt(file, DsetPath(last.frame, NameBC)) = EmptyMap
    /\ AttrsAt(file, DsetPath(last.frame, NameA)) = MdA

\* C23: a dumps call that fails leaves the container exactly as it was
\* before the call: a data set stored at (frame, name) is still there with
\* its data, and no new frame group remains.
C23_DumpsAtomic ==
    [][(last'.op = "dumps" /\ last'.err # "none") => file' = file]_vars

\* C24: loads of a name that is a group below the frame fails with an error,
\* returns no data, and leaves the container as it was.
C24_LoadsGroup ==
    [][(last'.op = "loads" /\ last'.pre = "group") =>
          IF last'.err = "none" THEN FALSE
          ELSE last'.ret = None /\ file' = file
      ]_vars

C24_Witness ==
    /\ last.op = "loads"
    /\ last.pre = "group"
    /\ last.err = "TypeError"
    /\ store.is_open
    /\ h5_kind(file, DsetPath(last.frame, last.name)) = "group"

\* C25: dumps with over_write=True on a name that is a group raises before
\* anything is deleted: the group, everything below it and every attribute
\* map are as before the call.
C25_NoDeleteOfGroup ==
    [][(/\ last'.op = "dumps"
        /\ last'.ow
        /\ last'.pre = "group"
        /\ WritableOpen) =>
           /\ last'.err = "group_not_dataset"
           /\ file' = file
      ]_vars

C25_Witness ==
    /\ last.op = "dumps"
    /\ last.ow
    /\ last.pre = "group"
    /\ last.err = "group_not_dataset"
    /\ last.name = NameB
    /\ AttrsAt(file, DsetPath(last.frame, NameB)) = MdA
    /\ h5_kind(file, DsetPath(last.frame, NameBC)) = "dataset"

\* C26: a dumps with over_write=True that returns on a name that was a data
\* set discards the old attribute map: get_dset_md then returns exactly the
\* meta_data of that call, the empty map when none was given.
C26_OverwriteDropsMd ==
    [][(/\ last'.op = "dumps"
        /\ last'.ow
        /\ last'.pre = "dataset"
        /\ last'.err = "none") =>
           get_dset_md(file', store', last'.frame, last'.name)
               = Return(file', last'.md)
      ]_vars

C26_Witness ==
    /\ last.op = "dumps"
    /\ last.ow
    /\ last.pre = "dataset"
    /\ last.err = "none"
    /\ last.md = MdB
    /\ AttrsAt(file, DsetPath(last.frame, last.name)) = MdB

====
